---- MODULE Spec2Model ----
(***************************************************************************)
(* Model of the document ingestion and retrieval-augmented query service:  *)
(* the chunking policy of services/document_processor.py, the query        *)
(* validation and orchestration of services/rag_pipeline.py, and the       *)
(* request handlers of main.py over the document store (MongoDB) and the   *)
(* vector store (ChromaDB).                                                *)
(*                                                                         *)
(* A Python str is modelled as the sequence of its maximal runs: each run  *)
(* is either a run of whitespace characters or a run of non-whitespace     *)
(* characters (a word), held as a TLA+ string.  len() is the sum of the    *)
(* run lengths, strip() drops a whitespace run at either end, split()      *)
(* keeps the word runs, " ".join() puts one single-space run between the   *)
(* words.                                                                  *)
(***************************************************************************)
EXTENDS Integers, Sequences, FiniteSets, TLC

VARIABLES
    CHUNK_SIZE,      \* Config.CHUNK_SIZE, read from the environment at import
    CHUNK_OVERLAP,   \* Config.CHUNK_OVERLAP
    text,            \* _chunk_text argument: the extracted document text
    document_id,     \* _chunk_text argument
    filename,        \* _chunk_text argument
    chunks,          \* the list _chunk_text returned
    pc,              \* "ready" before the call of _chunk_text, "returned" after it;
                     \* "opened" before the call of _extract_pdf_text, "extracted"
                     \* after it;
                     \* in the service "serving" between requests, "responding"
                     \* when a handler has returned and its response is on its way
    MAX_DOCUMENTS,   \* Config.MAX_DOCUMENTS
    documents,       \* the MongoDB collection: a set of metadata records
    collection,      \* the ChromaDB collection "document_chunks": a set of entries
    upload_count,    \* uploads handled so far; upload k draws the k-th uuid4 and ObjectId
    uploaded,        \* history: the successful uploads, returned id and document uuid
    last,            \* the last request or call and what it returned
    calls,           \* the external calls the last request issued, in order
    failed,          \* the external calls of the last request that raised
    retrieved,       \* the ranking collection.query returned to the last query
    temp_files,      \* the temporary files of uploads that exist on disk
    MAX_PAGES_PER_DOCUMENT,  \* Config.MAX_PAGES_PER_DOCUMENT
    pages            \* _extract_pdf_text: what extract_text() returns for each
                     \* page of reader.pages, in page order

chunkVars == <<CHUNK_SIZE, CHUNK_OVERLAP, text, document_id, filename, chunks>>

storeVars == <<MAX_DOCUMENTS, documents, collection, upload_count, uploaded>>

pdfVars == <<MAX_PAGES_PER_DOCUMENT, pages>>

vars == <<chunkVars, storeVars, pdfVars, pc, last, calls, failed, retrieved, temp_files>>

----------------------------------------------------------------------------
(* Bounds of the model and constants of the program                         *)

\* Longest small text, in words.
MaxWords == 5

\* Largest small window size.
MaxChunkSize == 3

\* os.getenv("CHUNK_SIZE", "1000")
DefaultChunkSize == 1000

\* os.getenv("CHUNK_OVERLAP", "200")
DefaultChunkOverlap == 200

\* os.getenv("MAX_PAGES_PER_DOCUMENT", "1000")
DefaultMaxPages == 1000

\* if len(chunk_text.strip()) < 50: continue
MinChunkChars == 50

----------------------------------------------------------------------------
(* Strings                                                                  *)

Min(a, b) == IF a < b THEN a ELSE b

\* Runs of whitespace characters.
WhitespaceRuns == {" ", "  ", "\n", "\n\n"}

IsSpace(run) == run \in WhitespaceRuns

\* Sum of the run lengths of s[lo..hi], by halving (the texts go to 5000 runs).
RECURSIVE RunChars(_, _, _)
RunChars(s, lo, hi) ==
    IF lo > hi THEN 0
    ELSE IF lo = hi THEN Len(s[lo])
    ELSE LET mid == (lo + hi) \div 2
         IN RunChars(s, lo, mid) + RunChars(s, mid + 1, hi)

\* len(s)
StrLen(s) == RunChars(s, 1, Len(s))

\* s.strip()
Strip(s) ==
    LET lo == IF Len(s) >= 1 /\ IsSpace(s[1]) THEN 2 ELSE 1
        hi == IF Len(s) >= 1 /\ IsSpace(s[Len(s)]) THEN Len(s) - 1 ELSE Len(s)
    IN SubSeq(s, lo, hi)

\* s.split()
Split(s) == SelectSeq(s, LAMBDA run : ~IsSpace(run))

\* s + t: where a whitespace run of s meets one of t they are one run
Concat(s, t) ==
    IF s = <<>> THEN t
    ELSE IF t = <<>> THEN s
    ELSE IF IsSpace(s[Len(s)]) /\ IsSpace(t[1])
    THEN SubSeq(s, 1, Len(s) - 1) \o <<s[Len(s)] \o t[1]>> \o Tail(t)
    ELSE s \o t

\* " ".join(words)
Join(words) ==
    IF words = <<>> THEN <<>>
    ELSE [k \in 1..(2 * Len(words) - 1) |->
            IF k % 2 = 1 THEN words[(k + 1) \div 2] ELSE " "]

----------------------------------------------------------------------------
(* DocumentProcessor._chunk_text                                            *)

\* Mutant: the loop steps by the whole window, ignoring the overlap.
Stride_NoOverlap == CHUNK_SIZE

\* Mutant: the loop advances by two strides and skips every other window.
Stride_SkipsEveryOther == 2 * (CHUNK_SIZE - CHUNK_OVERLAP)

\* range(0, len(words), chunk_size - overlap): the step of the loop
Stride == CHUNK_SIZE - CHUNK_OVERLAP

\* Mutant: the slice stops one word early, words[i:i + chunk_size - 1].
ChunkWords_OneLess(words, i) ==
    SubSeq(words, i + 1, Min(i + CHUNK_SIZE - 1, Len(words)))

\* words[i:i + chunk_size]
ChunkWords(words, i) == SubSeq(words, i + 1, Min(i + CHUNK_SIZE, Len(words)))

\* Mutant: a chunk of exactly 50 characters is dropped too (<= for <).
TooShort_Inclusive(chunk_text) == StrLen(Strip(chunk_text)) <= MinChunkChars

\* Mutant: the threshold is applied to the number of words, not of characters.
TooShort_CountsWords(chunk_text) == Len(Split(chunk_text)) < MinChunkChars

\* len(chunk_text.strip()) < 50
TooShort(chunk_text) == StrLen(Strip(chunk_text)) < MinChunkChars

\* i // chunk_size, used for chunk_id and chunk_index
ChunkIndex(i) == i \div CHUNK_SIZE

\* Mutant: the end offset is not clamped to the text, i + chunk_size.
EndWordIndex_Unclamped(words, i) == i + CHUNK_SIZE

\* Mutant: the end offset leaves the overlap out, min(i + chunk_size - overlap, n).
EndWordIndex_BeforeOverlap(words, i) ==
    Min(i + CHUNK_SIZE - CHUNK_OVERLAP, Len(words))

\* min(i + chunk_size, len(words))
EndWordIndex(words, i) == Min(i + CHUNK_SIZE, Len(words))

\* f"{document_id}_chunk_{i//chunk_size}"
ChunkId(doc_id, i) == <<doc_id, "_chunk_", ChunkIndex(i)>>

\* the chunk_data dict of one retained window
ChunkData(words, doc_id, fname, i) ==
    [chunk_id         |-> ChunkId(doc_id, i),
     document_id      |-> doc_id,
     filename         |-> fname,
     text             |-> Join(ChunkWords(words, i)),
     chunk_index      |-> ChunkIndex(i),
     word_count       |-> Len(ChunkWords(words, i)),
     start_word_index |-> i,
     end_word_index   |-> EndWordIndex(words, i)]

\* the for loop from index i on: the chunks appended from there
RECURSIVE ChunkLoop(_, _, _, _)
ChunkLoop(words, doc_id, fname, i) ==
    IF i >= Len(words) THEN <<>>
    ELSE LET rest == ChunkLoop(words, doc_id, fname, i + Stride)
         IN IF TooShort(Join(ChunkWords(words, i)))
            THEN rest
            ELSE <<ChunkData(words, doc_id, fname, i)>> \o rest

_chunk_text(txt, doc_id, fname) == ChunkLoop(Split(txt), doc_id, fname, 0)

----------------------------------------------------------------------------
(* Inputs of the chunking specification                                     *)

Word1 == "a"
Word24 == "abcdefghijklmnopqrstuvwx"
Word50 == "abcdefghijklmnopqrstuvwxyabcdefghijklmnopqrstuvwxy"

Words == {Word1, Word24, Word50}

\* Where a text has whitespace: before the first word, between words, after the last.
Layouts == {[lead |-> "",   sep |-> " ",  trail |-> ""],
            [lead |-> "  ", sep |-> "  ", trail |-> " "]}

\* The text of the given words in the given layout.
Render(words, layout) ==
    LET n    == Len(words)
        body == [k \in 1..(IF n = 0 THEN 0 ELSE 2 * n - 1) |->
                    IF k % 2 = 1 THEN words[(k + 1) \div 2] ELSE layout.sep]
        pre  == IF layout.lead = "" THEN <<>> ELSE <<layout.lead>>
        post == IF layout.trail = "" \/ n = 0 THEN <<>> ELSE <<layout.trail>>
    IN pre \o body \o post

WordSeqs == UNION {[1..n -> Words] : n \in 0..MaxWords}

SmallTexts == {Render(ws, l) : ws \in WordSeqs, l \in Layouts}

SmallConfigs == {c \in (1..MaxChunkSize) \X (0..MaxChunkSize) : c[2] < c[1]}

\* Texts of 2500 equal words, for the default configuration.
LongTexts == {Render([k \in 1..2500 |-> w], l) : w \in Words, l \in Layouts}

\* str(uuid.uuid4()) of the k-th upload, and str(ObjectId) of its inserted record:
\* two formats of identifier string that never coincide.
Uuid(k) == <<"uuid4", k>>

ObjectIdStr(k) == <<"ObjectId", k>>

DocumentIds == {Uuid(1)}

Filenames == {[root |-> "notes", ext |-> ".txt"]}

NoRequest == [request |-> "none", arg |-> <<>>, status |-> 0, result |-> [none |-> TRUE]]

----------------------------------------------------------------------------
(* DocumentProcessor._extract_pdf_text                                      *)

\* Pages of the PDFs under test, and the largest configured page limit.
MaxPages == 3

MaxPageLimit == 3

\* f"\n--- Page {page_num + 1} ---\n{page_text}\n"
PageBlock(page_num, page_text) ==
    Concat(<<"\n", "---", " ", "Page", " ", ToString(page_num + 1), " ", "---", "\n">>,
           Concat(page_text, <<"\n">>))

\* Mutant: the loop stops one page late, if page_num > MAX_PAGES_PER_DOCUMENT.
PastPageLimit_OneLate(page_num) == page_num > MAX_PAGES_PER_DOCUMENT

\* if page_num >= Config.MAX_PAGES_PER_DOCUMENT: break
PastPageLimit(page_num) == page_num >= MAX_PAGES_PER_DOCUMENT

\* for page_num, page in enumerate(reader.pages), from page_num on, with the
\* text gathered so far
RECURSIVE PageLoop(_, _, _)
PageLoop(pgs, page_num, txt) ==
    IF page_num >= Len(pgs) THEN txt
    ELSE IF PastPageLimit(page_num) THEN txt
    ELSE LET page_text == pgs[page_num + 1]
         IN PageLoop(pgs, page_num + 1,
                     IF page_text # <<>>
                     THEN Concat(txt, PageBlock(page_num, page_text))
                     ELSE txt)

_extract_pdf_text(pgs) == Strip(PageLoop(pgs, 0, <<>>))

\* What extract_text() returns for a page: nothing, one word, two words.
PageTexts == {<<>>, <<"alpha">>, <<"beta", " ", "gamma">>}

PageSeqs == UNION {[1..n -> PageTexts] : n \in 0..MaxPages}

----------------------------------------------------------------------------
(* The chunking specification: one call of _chunk_text on any input         *)

ChunkInit ==
    /\ \/ /\ \E c \in SmallConfigs : CHUNK_SIZE = c[1] /\ CHUNK_OVERLAP = c[2]
          /\ text \in SmallTexts
       \/ /\ CHUNK_SIZE = DefaultChunkSize
          /\ CHUNK_OVERLAP = DefaultChunkOverlap
          /\ text \in LongTexts
    /\ document_id \in DocumentIds
    /\ filename \in Filenames
    /\ chunks = <<>>
    /\ pc = "ready"
    /\ MAX_DOCUMENTS = 1
    /\ documents = {}
    /\ collection = {}
    /\ upload_count = 0
    /\ uploaded = {}
    /\ last = NoRequest
    /\ calls = <<>>
    /\ failed = {}
    /\ retrieved = <<>>
    /\ temp_files = {}
    /\ MAX_PAGES_PER_DOCUMENT = DefaultMaxPages
    /\ pages = <<>>

CallChunkText ==
    /\ pc = "ready"
    /\ chunks' = _chunk_text(text, document_id, filename)
    /\ pc' = "returned"
    /\ UNCHANGED <<CHUNK_SIZE, CHUNK_OVERLAP, text, document_id, filename>>
    /\ UNCHANGED <<storeVars, last, calls, failed, retrieved, temp_files, pdfVars>>

ChunkNext == CallChunkText

SpecChunk == ChunkInit /\ [][ChunkNext]_vars

----------------------------------------------------------------------------
(* The extraction specification: one call of _extract_pdf_text on any PDF   *)

PdfInit ==
    /\ MAX_PAGES_PER_DOCUMENT \in 0..MaxPageLimit
    /\ pages \in PageSeqs
    /\ text = <<>>
    /\ pc = "opened"
    /\ CHUNK_SIZE = DefaultChunkSize
    /\ CHUNK_OVERLAP = DefaultChunkOverlap
    /\ document_id \in DocumentIds
    /\ filename \in Filenames
    /\ chunks = <<>>
    /\ MAX_DOCUMENTS = 1
    /\ documents = {}
    /\ collection = {}
    /\ upload_count = 0
    /\ uploaded = {}
    /\ last = NoRequest
    /\ calls = <<>>
    /\ failed = {}
    /\ retrieved = <<>>
    /\ temp_files = {}

CallExtractPdfText ==
    /\ pc = "opened"
    /\ text' = _extract_pdf_text(pages)
    /\ pc' = "extracted"
    /\ UNCHANGED <<CHUNK_SIZE, CHUNK_OVERLAP, document_id, filename, chunks>>
    /\ UNCHANGED <<storeVars, pdfVars, last, calls, failed, retrieved, temp_files>>

PdfNext == CallExtractPdfText

SpecPdf == PdfInit /\ [][PdfNext]_vars

----------------------------------------------------------------------------
(* Vocabulary of the chunking claims, stated on the inputs and the result   *)

\* The words of the text under test, and their number n.
TextWords == SelectSeq(text, LAMBDA run : run \notin {" ", "  "})

NumWords == Len(TextWords)

\* Characters of words[a+1..b] written with one space between neighbours.
SpacedChars(a, b) ==
    IF b <= a THEN 0 ELSE RunChars(TextWords, a + 1, b) + (b - a - 1)

\* The candidate windows: start indices 0, W-O, 2(W-O), ... below n.
WindowStarts == {s \in 0..(NumWords - 1) : s % (CHUNK_SIZE - CHUNK_OVERLAP) = 0}

WindowEnd(s) == IF s + CHUNK_SIZE < NumWords THEN s + CHUNK_SIZE ELSE NumWords

\* The (start_word_index, end_word_index) spans of the returned chunks, in order.
Spans == [k \in 1..Len(chunks) |->
            <<chunks[k].start_word_index, chunks[k].end_word_index>>]

DefaultConfig2500 ==
    /\ pc = "returned"
    /\ CHUNK_SIZE = 1000
    /\ CHUNK_OVERLAP = 200
    /\ NumWords = 2500

----------------------------------------------------------------------------
(* C1 *)

\* C1 as stated: with W=1000 and O=200 a text of 2500 words yields exactly the
\* 3 chunks [0,1000), [800,1800), [1600,2500).
C1_ThreeChunks ==
    DefaultConfig2500 => Spans = << <<0, 1000>>, <<800, 1800>>, <<1600, 2500>> >>

\* C1 amended: with W=1000 and O=200 a text of 2500 words yields exactly 4
\* chunks, with spans [0,1000), [800,1800), [1600,2500) and [2400,2500): the
\* window starting at word 2400 is below 2500 and is returned as well.
C1_FourChunks ==
    DefaultConfig2500 =>
        Spans = << <<0, 1000>>, <<800, 1800>>, <<1600, 2500>>, <<2400, 2500>> >>

C1_Witness == DefaultConfig2500 /\ Len(chunks) = 4

----------------------------------------------------------------------------
(* C3 *)

\* C3 as stated: a text of fewer than W words yields exactly one chunk when its
\* space-joined text has at least 50 characters and zero chunks otherwise.
C3_OneOrZero ==
    (pc = "returned" /\ NumWords < CHUNK_SIZE) =>
        Len(chunks) = (IF SpacedChars(0, NumWords) >= 50 THEN 1 ELSE 0)

\* C3 amended: a text of fewer than W words yields zero chunks when its
\* space-joined text has fewer than 50 characters; otherwise it yields at least
\* one chunk, the first spanning the whole text [0, n), and exactly one chunk
\* when n <= W - O.  (For W - O < n < W the later windows, which start at the
\* multiples of W - O, are returned too when they have 50 characters.)
C3_ShortText ==
    (pc = "returned" /\ NumWords < CHUNK_SIZE) =>
        /\ SpacedChars(0, NumWords) < 50 => chunks = <<>>
        /\ SpacedChars(0, NumWords) >= 50 =>
               /\ Len(chunks) >= 1
               /\ Spans[1] = <<0, NumWords>>
        /\ NumWords <= CHUNK_SIZE - CHUNK_OVERLAP => Len(chunks) <= 1

C3_Witness ==
    /\ pc = "returned"
    /\ NumWords < CHUNK_SIZE
    /\ Len(chunks) = 2
    /\ Spans[1] = <<0, NumWords>>

----------------------------------------------------------------------------
(* C4 *)

\* C4 as stated: consecutive chunks overlap by exactly O words, except for the
\* pair that ends in the final chunk.
C4_ExactOverlap ==
    pc = "returned" =>
        \A k \in 1..(Len(chunks) - 2) :
            chunks[k].end_word_index - chunks[k + 1].start_word_index = CHUNK_OVERLAP

\* C4 amended: two consecutive chunks never overlap by more than O words, and
\* they overlap by exactly O words when they come from adjacent windows (no
\* window between them was dropped) and the earlier one is a full window of W
\* words; a pair separated by a dropped window, or whose earlier chunk is cut
\* short by the end of the text, overlaps by less, also before the final chunk.
C4_OverlapOfFullAdjacent ==
    pc = "returned" =>
        \A k \in 1..(Len(chunks) - 1) :
            LET a == chunks[k]
                b == chunks[k + 1]
            IN /\ a.end_word_index - b.start_word_index <= CHUNK_OVERLAP
               /\ ( /\ b.start_word_index =
                          a.start_word_index + CHUNK_SIZE - CHUNK_OVERLAP
                    /\ a.start_word_index + CHUNK_SIZE <= NumWords )
                  => a.end_word_index - b.start_word_index = CHUNK_OVERLAP

C4_Witness ==
    /\ pc = "returned"
    /\ CHUNK_OVERLAP > 0
    /\ Len(chunks) >= 3
    /\ chunks[1].end_word_index - chunks[2].start_word_index = CHUNK_OVERLAP
    /\ chunks[2].end_word_index - chunks[3].start_word_index < CHUNK_OVERLAP

----------------------------------------------------------------------------
(* C5 *)

\* C5 as stated: the k-th returned chunk (k = 0, 1, 2, ...) has chunk_index k.
C5_SequenceIndex ==
    pc = "returned" => \A k \in 1..Len(chunks) : chunks[k].chunk_index = k - 1

----------------------------------------------------------------------------
(* C6 *)

\* C6: a window is retained if and only if its space-joined, trimmed text has
\* at least 50 characters: every returned chunk has at least 50 characters and
\* the returned chunks are exactly the candidate windows with 50 or more.
C6_RetainedIffLongEnough ==
    pc = "returned" =>
        /\ \A k \in 1..Len(chunks) : StrLen(Strip(chunks[k].text)) >= 50
        /\ {chunks[k].start_word_index : k \in 1..Len(chunks)} =
               {s \in WindowStarts : SpacedChars(s, WindowEnd(s)) >= 50}
        /\ Len(chunks) =
               Cardinality({s \in WindowStarts : SpacedChars(s, WindowEnd(s)) >= 50})

C6_Witness ==
    /\ pc = "returned"
    /\ \E k \in 1..Len(chunks) : StrLen(chunks[k].text) = 50
    /\ \E s \in WindowStarts :
          /\ SpacedChars(s, WindowEnd(s)) = 49
          /\ \A k \in 1..Len(chunks) : chunks[k].start_word_index # s

----------------------------------------------------------------------------
(* C7 *)

\* C7: the windows start exactly at the indices 0, W-O, 2(W-O), ... below n,
\* each holds the words [s, min(s+W, n)), and the chunk text is those words
\* joined by single spaces: the returned chunks are such windows in increasing
\* order of start, and a candidate start has no chunk only if its window has
\* fewer than 50 characters.
C7_SlidingWindow ==
    pc = "returned" =>
        /\ \A k \in 1..Len(chunks) :
              LET s == chunks[k].start_word_index
                  e == chunks[k].end_word_index
                  t == chunks[k].text
              IN /\ s \in WindowStarts
                 /\ e = WindowEnd(s)
                 /\ Len(t) = 2 * (e - s) - 1
                 /\ \A j \in 1..Len(t) :
                       t[j] = (IF j % 2 = 1 THEN TextWords[s + (j + 1) \div 2] ELSE " ")
        /\ \A k \in 1..(Len(chunks) - 1) :
              chunks[k].start_word_index < chunks[k + 1].start_word_index
        /\ \A s \in WindowStarts :
              \/ \E k \in 1..Len(chunks) : chunks[k].start_word_index = s
              \/ SpacedChars(s, WindowEnd(s)) < 50

C7_Witness ==
    /\ pc = "returned"
    /\ \E j \in 1..Len(text) : text[j] = "  "
    /\ CHUNK_OVERLAP > 0
    /\ Len(chunks) >= 2
    /\ chunks[2].start_word_index = CHUNK_SIZE - CHUNK_OVERLAP
    /\ chunks[Len(chunks)].end_word_index < chunks[Len(chunks)].start_word_index + CHUNK_SIZE

----------------------------------------------------------------------------
(* C8 *)

\* C8: every returned chunk has 0 <= start_word_index < end_word_index <= n,
\* word_count = end_word_index - start_word_index and word_count <= W.
C8_ConsistentOffsets ==
    pc = "returned" =>
        \A k \in 1..Len(chunks) :
            /\ 0 <= chunks[k].start_word_index
            /\ chunks[k].start_word_index < chunks[k].end_word_index
            /\ chunks[k].end_word_index <= NumWords
            /\ chunks[k].word_count =
                   chunks[k].end_word_index - chunks[k].start_word_index
            /\ chunks[k].word_count <= CHUNK_SIZE

C8_Witness ==
    /\ pc = "returned"
    /\ \E k \in 1..Len(chunks) : chunks[k].word_count = CHUNK_SIZE
    /\ \E k \in 1..Len(chunks) :
          /\ chunks[k].word_count < CHUNK_SIZE
          /\ chunks[k].end_word_index = NumWords

----------------------------------------------------------------------------
(* The service: bounds, constants and request inputs                        *)

\* Uploads handled in one run of the model.
MaxUploads == 2

\* Largest configured document limit (Config.MAX_DOCUMENTS is read from the
\* environment).
MaxDocumentLimit == 2

\* if not query or len(query.strip()) < 3
MinQueryChars == 3

\* if len(query.strip()) > 1000
MaxQueryChars == 1000

\* if not text or len(text.strip()) < 10 (both in process_document and validate_text)
MinTextChars == 10

\* n_results=1000 in delete_document_chunks
DeleteQueryLimit == 1000

\* chunk['text'][:200] + "..." if len(chunk['text']) > 200
PreviewChars == 200

\* max_size = 50 * 1024 * 1024
MaxFileSize == 50 * 1024 * 1024

\* self.supported_extensions
supported_extensions == {".pdf", ".docx", ".txt"}

\* inappropriate_words
inappropriate_words == {"spam", "malware", "virus"}

\* str.lower() of one run, on the runs the inputs use.
LowerRun(run) ==
    CASE run = ".TXT"  -> ".txt"
      [] run = ".PDF"  -> ".pdf"
      [] run = "Virus" -> "virus"
      [] OTHER         -> run

\* s.lower()
Lower(s) == [k \in DOMAIN s |-> LowerRun(s[k])]

\* The filtered words that occur inside one lower-case run.
FilteredIn(run) ==
    CASE run = "virus"     -> {"virus"}
      [] run = "antivirus" -> {"virus"}
      [] run = "spam"      -> {"spam"}
      [] run = "malware"   -> {"malware"}
      [] OTHER             -> {}

\* word in text_lower: a filtered word has no whitespace, so it lies in one run
Contains(s, word) == \E k \in DOMAIN s : word \in FilteredIn(s[k])

\* Extracted texts of the uploaded files.
TextOneChunk == <<Word50>>
TextThreeWords == <<Word50, " ", Word50, " ", Word50>>
TextBrief == <<Word24>>
TextTiny == <<"a">>

\* An uploaded file: its name as os.path.splitext splits it, its size in bytes,
\* and what the extractor of its format makes of it (it raises, or returns the
\* stripped text blob).
File(root, ext, size, raised, txt) ==
    [filename   |-> [root |-> root, ext |-> ext],
     size       |-> size,
     extraction |-> [raised |-> raised, text |-> txt]]

Files ==
    {File("notes", ".txt", 1000, FALSE, TextOneChunk),
     File("report", ".PDF", MaxFileSize, FALSE, TextThreeWords),
     File("brief", ".docx", 1000, FALSE, TextBrief),
     File("tiny", ".txt", 1, FALSE, TextTiny),
     File("blank", ".txt", 0, FALSE, <<>>),
     File("scan", ".pdf", 1000, TRUE, <<>>),
     File("image", ".png", 1000, FALSE, TextOneChunk),
     File("huge", ".txt", MaxFileSize + 1, FALSE, TextOneChunk),
     File("", "", 1000, FALSE, TextOneChunk)}

Queries ==
    {<<>>,
     <<" ">>,
     <<"ab">>,
     <<"  ", "a", " ">>,
     <<"abc">>,
     <<"what", " ", "is", " ", "chunking">>,
     <<" ", "remove", " ", "the", " ", "Virus">>}

\* n_results of a query request (5 is the default; 0 is refused by the vector store)
NResults == {0, 1, 5}

\* Identifier strings a get or delete request may carry.
RequestIds ==
    {ObjectIdStr(k) : k \in 1..MaxUploads} \cup {Uuid(k) : k \in 1..MaxUploads}
        \cup {<<"not-an-id", 0>>}

\* Window configurations of the service runs.
ServiceConfigs == {<<2, 0>>, <<2, 1>>}

----------------------------------------------------------------------------
(* DocumentProcessor.validate_file and process_document                     *)

\* Mutant: a file of exactly the maximum size is refused, file_size >= max_size.
validate_file_SizeInclusive(fname, file_size) ==
    LowerRun(fname.ext) \in supported_extensions /\ file_size < MaxFileSize

validate_file(fname, file_size) ==
    IF LowerRun(fname.ext) \notin supported_extensions THEN FALSE
    ELSE IF file_size > MaxFileSize THEN FALSE
    ELSE TRUE

\* Mutant: only the empty text is refused, not text
InsufficientText_OnlyEmpty(txt) == txt = <<>>

\* if not text or len(text.strip()) < 10
InsufficientText(txt) == txt = <<>> \/ StrLen(Strip(txt)) < MinTextChars

ProcessingError(e) ==
    [raised |-> TRUE, error |-> e, metadata |-> [none |-> TRUE], chunks |-> <<>>]

\* process_document(file_path, filename), with uuid the value uuid.uuid4() draws
process_document(file, uuid) ==
    LET file_ext == LowerRun(file.filename.ext)
        txt      == file.extraction.text
    IN IF file_ext \notin supported_extensions
       THEN ProcessingError("Unsupported file type")
       ELSE IF file.extraction.raised
       THEN ProcessingError("extraction failed")
       ELSE IF InsufficientText(txt)
       THEN ProcessingError("Document contains insufficient text content")
       ELSE LET cs == _chunk_text(txt, uuid, file.filename)
            IN [raised   |-> FALSE,
                error    |-> "",
                metadata |-> [document_id       |-> uuid,
                              filename          |-> file.filename,
                              file_size         |-> file.size,
                              file_extension    |-> file_ext,
                              total_characters  |-> StrLen(txt),
                              processing_status |-> "completed",
                              chunks_count      |-> Len(cs)],
                chunks   |-> cs]

----------------------------------------------------------------------------
(* MongoDBClient and ChromaDBClient                                         *)

\* ObjectId(document_id) parses: the string has the ObjectId format
IsObjectIdStr(id) == id[1] = "ObjectId"

\* The record as insert_one stores it, under the ObjectId it generated.
StoredDocument(metadata, oid) ==
    [f \in DOMAIN metadata \cup {"_id"} |-> IF f = "_id" THEN oid ELSE metadata[f]]

\* get_all_documents: list(find({}, {"_id": 0})); [] when the call raises
get_all_documents(failing) ==
    IF "mongo.find" \in failing THEN {}
    ELSE {[f \in DOMAIN d \ {"_id"} |-> d[f]] : d \in documents}

\* The entry add_documents builds for one chunk.
ChromaEntry(doc) ==
    [id       |-> doc.chunk_id,
     document |-> doc.text,
     metadata |-> [document_id |-> doc.document_id,
                   chunk_index |-> doc.chunk_index,
                   filename    |-> doc.filename,
                   page_number |-> 0]]

\* collection.add refuses a batch that names an id twice.
HasDuplicateIds(docs) ==
    \E i, j \in DOMAIN docs : i # j /\ docs[i].chunk_id = docs[j].chunk_id

\* add_documents(documents): [raised, calls, collection afterwards]
add_documents(docs, failing) ==
    IF docs = <<>>
    THEN [raised |-> FALSE, calls |-> <<>>, collection |-> collection]
    ELSE IF "chroma.add" \in failing \/ HasDuplicateIds(docs)
    THEN [raised |-> TRUE, calls |-> <<"chroma.add">>, collection |-> collection]
    ELSE [raised     |-> FALSE,
          calls      |-> <<"chroma.add">>,
          collection |-> collection \cup {ChromaEntry(docs[k]) : k \in DOMAIN docs}]

\* The entries collection.query(where={"document_id": id}, n_results=1000) may
\* return: the matching entries, at most 1000 of them.
WhereDocumentId(id) ==
    LET matching == {c \in collection : c.metadata.document_id = id}
    IN IF Cardinality(matching) <= DeleteQueryLimit THEN {matching}
       ELSE {m \in SUBSET matching : Cardinality(m) = DeleteQueryLimit}

\* Mutant: a failed collection.query is issued a second time.
delete_document_chunks_Retry(id, failing, found) ==
    IF "chroma.query" \in failing
    THEN [calls |-> <<"chroma.query", "chroma.query">>, collection |-> collection]
    ELSE [calls      |-> <<"chroma.query", "chroma.delete">>,
          collection |-> IF "chroma.delete" \in failing THEN collection
                         ELSE collection \ found]

\* delete_document_chunks(document_id): every exception is logged and swallowed
delete_document_chunks(id, failing, found) ==
    IF "chroma.query" \in failing
    THEN [calls |-> <<"chroma.query">>, collection |-> collection]
    ELSE IF "chroma.delete" \in failing
    THEN [calls |-> <<"chroma.query", "chroma.delete">>, collection |-> collection]
    ELSE [calls      |-> <<"chroma.query", "chroma.delete">>,
          collection |-> collection \ found]

----------------------------------------------------------------------------
(* main.py: upload_document, delete_document, get_document, get_documents   *)

Response(request, arg, status, result) ==
    [request |-> request, arg |-> arg, status |-> status, result |-> result]

Detail(message) == [detail |-> message]

\* The external calls named in a sequence of calls.
Issued(cs) == {cs[k] : k \in DOMAIN cs}

\* tempfile.NamedTemporaryFile(delete=False) of the k-th upload
TempPath(k) == <<"tmp", k>>

\* Mutant: the file is left where it is.
Unlink_Kept(files, path) == files

\* if temp_file_path and os.path.exists(temp_file_path): os.unlink(temp_file_path)
Unlink(files, path) == files \ {path}

\* What one upload does: the response, the calls and those that raised, whether
\* _chunk_text ran, both stores and the temporary files afterwards.
upload_document(file, failing, k) ==
    LET existing_docs == get_all_documents(failing)
        processed     == process_document(file, Uuid(k))
        added         == add_documents(processed.chunks, failing)
        raising       == IF HasDuplicateIds(processed.chunks)
                         THEN failing \cup {"chroma.add"} ELSE failing
        created       == temp_files \cup {TempPath(k)}
        removed       == Unlink(created, TempPath(k))
        Outcome(status, result, cs, chunked, docs, coll, temps) ==
            [status |-> status, result |-> result, calls |-> cs,
             failed |-> raising \cap Issued(cs),
             chunked |-> chunked, documents |-> docs, collection |-> coll,
             temp_files |-> temps]
    IN IF file.filename.root = "" /\ file.filename.ext = ""
       THEN Outcome(400, Detail("No file provided"), <<>>, FALSE,
                    documents, collection, temp_files)
       ELSE IF "copy" \in failing
       THEN Outcome(500, Detail("Error processing file"), <<>>, FALSE,
                    documents, collection, removed)
       ELSE IF ~validate_file(file.filename, file.size)
       THEN Outcome(400, Detail("Invalid file type or size"), <<>>, FALSE,
                    documents, collection, removed)
       ELSE IF Cardinality(existing_docs) >= MAX_DOCUMENTS
       THEN Outcome(400, Detail("Maximum number of documents reached"),
                    <<"mongo.find">>, FALSE, documents, collection, removed)
       ELSE IF processed.raised
       THEN Outcome(500, Detail("Error processing document"),
                    <<"mongo.find">>, FALSE, documents, collection, removed)
       ELSE IF "mongo.insert_one" \in failing
       THEN Outcome(500, Detail("Error processing document"),
                    <<"mongo.find", "mongo.insert_one">>, TRUE,
                    documents, collection, removed)
       ELSE LET stored == documents \cup
                              {StoredDocument(processed.metadata, ObjectIdStr(k))}
            IN IF added.raised
               THEN Outcome(500, Detail("Error processing document"),
                            <<"mongo.find", "mongo.insert_one">> \o added.calls,
                            TRUE, stored, collection, removed)
               ELSE Outcome(200,
                            [success      |-> TRUE,
                             document_id  |-> ObjectIdStr(k),
                             filename     |-> file.filename,
                             chunks_count |-> processed.metadata.chunks_count],
                            <<"mongo.find", "mongo.insert_one">> \o added.calls,
                            TRUE, stored, added.collection, removed)

UploadDocument ==
    /\ pc = "serving"
    /\ pc' = "responding"
    /\ upload_count < MaxUploads
    /\ \E file \in Files, failing \in SUBSET {"copy", "mongo.find", "mongo.insert_one", "chroma.add"} :
          LET k == upload_count + 1
              o == upload_document(file, failing, k)
          IN /\ documents' = o.documents
             /\ collection' = o.collection
             /\ upload_count' = k
             /\ uploaded' = IF o.status = 200
                            THEN uploaded \cup {[returned    |-> o.result.document_id,
                                                 document_id |-> Uuid(k)]}
                            ELSE uploaded
             /\ last' = Response("upload", file, o.status, o.result)
             /\ calls' = o.calls
             /\ failed' = o.failed
             /\ temp_files' = o.temp_files
             /\ IF o.chunked
                THEN /\ text' = file.extraction.text
                     /\ document_id' = Uuid(k)
                     /\ filename' = file.filename
                     /\ chunks' = _chunk_text(file.extraction.text, Uuid(k), file.filename)
                ELSE UNCHANGED <<text, document_id, filename, chunks>>
    /\ UNCHANGED <<CHUNK_SIZE, CHUNK_OVERLAP, MAX_DOCUMENTS, retrieved, pdfVars>>

\* Mutant: delete_one having returned counts as success, whatever it deleted.
mongo_delete_document_IgnoresCount(id, failing) ==
    IF ~IsObjectIdStr(id)
    THEN [success |-> FALSE, calls |-> <<>>, documents |-> documents]
    ELSE [success   |-> "mongo.delete_one" \notin failing,
          calls     |-> <<"mongo.delete_one">>,
          documents |-> IF "mongo.delete_one" \in failing THEN documents
                        ELSE {d \in documents : d._id # id}]

\* Mutant: the filter of delete_one is dropped, a found record takes the others
\* with it.
mongo_delete_document_NoFilter(id, failing) ==
    IF ~IsObjectIdStr(id)
    THEN [success |-> FALSE, calls |-> <<>>, documents |-> documents]
    ELSE IF "mongo.delete_one" \in failing
    THEN [success |-> FALSE, calls |-> <<"mongo.delete_one">>, documents |-> documents]
    ELSE [success   |-> \E d \in documents : d._id = id,
          calls     |-> <<"mongo.delete_one">>,
          documents |-> IF \E d \in documents : d._id = id THEN {} ELSE documents]

\* MongoDBClient.delete_document: [success, calls, documents afterwards]
mongo_delete_document(id, failing) ==
    IF ~IsObjectIdStr(id)
    THEN [success |-> FALSE, calls |-> <<>>, documents |-> documents]
    ELSE IF "mongo.delete_one" \in failing
    THEN [success |-> FALSE, calls |-> <<"mongo.delete_one">>, documents |-> documents]
    ELSE [success   |-> \E d \in documents : d._id = id,
          calls     |-> <<"mongo.delete_one">>,
          documents |-> {d \in documents : d._id # id}]

DeleteDocument ==
    /\ pc = "serving"
    /\ pc' = "responding"
    /\ \E id \in RequestIds, failing \in SUBSET {"mongo.delete_one", "chroma.query", "chroma.delete"} :
          LET deleted == mongo_delete_document(id, failing)
          IN IF ~deleted.success
             THEN /\ documents' = deleted.documents
                  /\ collection' = collection
                  /\ last' = Response("delete", id, 404, Detail("Document not found"))
                  /\ calls' = deleted.calls
                  /\ failed' = failing \cap Issued(deleted.calls)
             ELSE \E found \in WhereDocumentId(id) :
                     LET removed == delete_document_chunks(id, failing, found)
                     IN /\ documents' = deleted.documents
                        /\ collection' = removed.collection
                        /\ last' = Response("delete", id, 200,
                                            [success |-> TRUE,
                                             message |-> "Document deleted successfully"])
                        /\ calls' = deleted.calls \o removed.calls
                        /\ failed' = failing \cap Issued(removed.calls)
    /\ UNCHANGED <<chunkVars, MAX_DOCUMENTS, upload_count, uploaded, retrieved, temp_files, pdfVars>>

\* MongoDBClient.get_document: the record, or None (also when the call raises)
mongo_get_document(id, failing) ==
    IF ~IsObjectIdStr(id) \/ "mongo.find_one" \in failing THEN {}
    ELSE {d \in documents : d._id = id}

GetDocument ==
    /\ pc = "serving"
    /\ pc' = "responding"
    /\ \E id \in RequestIds, failing \in SUBSET {"mongo.find_one"} :
          LET document == mongo_get_document(id, failing)
          IN /\ last' = IF document = {}
                        THEN Response("get", id, 404, Detail("Document not found"))
                        ELSE Response("get", id, 200,
                                      [success |-> TRUE, document |-> document])
             /\ calls' = IF IsObjectIdStr(id) THEN <<"mongo.find_one">> ELSE <<>>
             /\ failed' = IF IsObjectIdStr(id) THEN failing ELSE {}
    /\ UNCHANGED <<chunkVars, storeVars, retrieved, temp_files, pdfVars>>

GetDocuments ==
    /\ pc = "serving"
    /\ pc' = "responding"
    /\ \E failing \in SUBSET {"mongo.find"} :
          LET docs == get_all_documents(failing)
          IN /\ last' = Response("list", <<>>, 200,
                                 [success     |-> TRUE,
                                  documents   |-> docs,
                                  total_count |-> Cardinality(docs)])
             /\ calls' = <<"mongo.find">>
             /\ failed' = failing
    /\ UNCHANGED <<chunkVars, storeVars, retrieved, temp_files, pdfVars>>

----------------------------------------------------------------------------
(* GeminiClient.validate_text and generate_response                         *)

validate_text(txt) ==
    IF txt = <<>> \/ StrLen(Strip(txt)) < MinTextChars THEN FALSE
    ELSE ~ \E word \in inappropriate_words : Contains(Lower(txt), word)

\* What generate_content does: it returns text, returns no text, or raises.
Generations == {"text", "empty", "raises"}

\* generate_response(query, context): always a string, also when the call raises
generate_response(query, context, generation) ==
    CASE generation = "text"   -> [kind |-> "completion", query |-> query, context |-> context]
      [] generation = "empty"  -> [kind |-> "apology", query |-> query, context |-> context]
      [] generation = "raises" -> [kind |-> "error message", query |-> query, context |-> context]

----------------------------------------------------------------------------
(* RAGPipeline.validate_query and process_query                             *)

validate_query(query) ==
    IF query = <<>> \/ Strip(query) = <<>>
    THEN [valid |-> FALSE, error |-> "Query cannot be empty"]
    ELSE IF StrLen(Strip(query)) < MinQueryChars
    THEN [valid |-> FALSE, error |-> "Query must be at least 3 characters long"]
    ELSE IF StrLen(Strip(query)) > MaxQueryChars
    THEN [valid |-> FALSE, error |-> "Query is too long (maximum 1000 characters)"]
    ELSE IF ~validate_text(query)
    THEN [valid |-> FALSE, error |-> "Query contains inappropriate content"]
    ELSE [valid |-> TRUE, error |-> ""]

\* The rankings collection.query(n_results) may return: min(n_results, count)
\* distinct entries in some order of distance.
Rankings(n_results) ==
    LET m == Min(n_results, Cardinality(collection))
    IN {r \in [1..m -> collection] : \A i, j \in 1..m : i # j => r[i] # r[j]}

\* One entry as search_similar formats it.
FormattedResult(entry) == [text |-> entry.document, metadata |-> entry.metadata]

\* Mutant: the formatted results are returned in the reverse of the ranking.
search_similar_Reversed(query, n_results) ==
    {[results |-> <<>>, raised |-> TRUE, ranking |-> <<>>]} \cup
    (IF n_results < 1 THEN {}
     ELSE {[results |-> [k \in DOMAIN r |-> FormattedResult(r[Len(r) + 1 - k])],
            raised  |-> FALSE,
            ranking |-> r]
           : r \in Rankings(n_results)})

\* What search_similar(query, n_results) may do: collection.query returns a
\* ranking and it is formatted, or it raises (a failing store, or n_results
\* below 1) and [] is returned.
search_similar(query, n_results) ==
    {[results |-> <<>>, raised |-> TRUE, ranking |-> <<>>]} \cup
    (IF n_results < 1 THEN {}
     ELSE {[results |-> [k \in DOMAIN r |-> FormattedResult(r[k])],
            raised  |-> FALSE,
            ranking |-> r]
           : r \in Rankings(n_results)})

\* chunk['text'][:200] + "..." if len(chunk['text']) > 200 else chunk['text']
TextPreview(txt) ==
    IF StrLen(txt) > PreviewChars THEN <<"[:200] of", txt, "...">> ELSE txt

Source(chunk) ==
    [filename     |-> chunk.metadata.filename,
     chunk_index  |-> chunk.metadata.chunk_index,
     text_preview |-> TextPreview(chunk.text)]

\* Mutant: the length is taken without strip(), len(query) < 3.
QueryTooShort_Unstripped(query) == query = <<>> \/ StrLen(query) < MinQueryChars

\* if not query or len(query.strip()) < 3
QueryTooShort(query) == query = <<>> \/ StrLen(Strip(query)) < MinQueryChars

\* Mutant: the failure is raised to the caller instead of returned.
Failure_Raised(message) == [exception |-> message]

Failure(message) == [success |-> FALSE, error |-> message]

\* What process_query(query, n_results) may do: each outcome is the result it
\* returns, the external calls it issued, those of them that raised, and the
\* ranking the vector store returned.
process_query(query, n_results) ==
    IF QueryTooShort(query)
    THEN {[result |-> Failure("Query must be at least 3 characters long"),
           calls  |-> <<>>,
           failed |-> {},
           retrieved |-> <<>>]}
    ELSE UNION {
           LET relevant_chunks == searched.results
               search_failed   == IF searched.raised THEN {"chroma.query"} ELSE {}
           IN IF relevant_chunks = <<>>
              THEN {[result |-> Failure("No relevant documents found for your query"),
                     calls  |-> <<"chroma.query">>,
                     failed |-> search_failed,
                     retrieved |-> searched.ranking]}
              ELSE LET context_texts == [k \in DOMAIN relevant_chunks |->
                                            relevant_chunks[k].text]
                   IN {[result |-> [success       |-> TRUE,
                                    query         |-> query,
                                    response      |-> generate_response(query, context_texts, g),
                                    sources       |-> [k \in DOMAIN relevant_chunks |->
                                                          Source(relevant_chunks[k])],
                                    total_sources |-> Len(relevant_chunks)],
                        calls  |-> <<"chroma.query", "gemini.generate_content">>,
                        failed |-> IF g = "raises"
                                   THEN {"gemini.generate_content"} ELSE {},
                        retrieved |-> searched.ranking]
                       : g \in Generations}
           : searched \in search_similar(query, n_results)}

\* A direct call of RAGPipeline.validate_query
CallValidateQuery ==
    /\ pc = "serving"
    /\ pc' = "responding"
    /\ \E query \in Queries :
          /\ last' = Response("validate_query", query, 0, validate_query(query))
          /\ calls' = <<>>
          /\ failed' = {}
          /\ retrieved' = <<>>
    /\ UNCHANGED <<chunkVars, storeVars, temp_files, pdfVars>>

\* A direct call of RAGPipeline.process_query (process_query_async makes one)
CallProcessQuery ==
    /\ pc = "serving"
    /\ pc' = "responding"
    /\ \E query \in Queries, n_results \in NResults :
          \E o \in process_query(query, n_results) :
              /\ last' = Response("process_query", query, 0, o.result)
              /\ calls' = o.calls
              /\ failed' = o.failed
              /\ retrieved' = o.retrieved
    /\ UNCHANGED <<chunkVars, storeVars, temp_files, pdfVars>>

\* Mutant: the handler keeps a record of each query it answered.
QueryDocuments_Persisting ==
    /\ pc = "serving"
    /\ pc' = "responding"
    /\ \E query \in Queries, n_results \in NResults :
          \E o \in process_query(query, n_results) :
              /\ validate_query(query).valid
              /\ o.result.success
              /\ last' = Response("query", query, 200, o.result)
              /\ calls' = o.calls
              /\ failed' = o.failed
              /\ retrieved' = o.retrieved
              /\ documents' = documents \cup {[_id |-> ObjectIdStr(0), query |-> query]}
    /\ UNCHANGED <<chunkVars, MAX_DOCUMENTS, collection, upload_count, uploaded, temp_files, pdfVars>>

\* main.py query_documents; an exception out of process_query would be answered
\* 500 by the handler's last except clause
QueryDocuments ==
    /\ pc = "serving"
    /\ pc' = "responding"
    /\ \E query \in Queries, n_results \in NResults :
          LET validation == validate_query(query)
          IN IF ~validation.valid
             THEN /\ last' = Response("query", query, 400, Detail(validation.error))
                  /\ calls' = <<>>
                  /\ failed' = {}
                  /\ retrieved' = <<>>
             ELSE \E o \in process_query(query, n_results) :
                     /\ last' = IF "success" \notin DOMAIN o.result
                                THEN Response("query", query, 500,
                                              Detail("Internal server error"))
                                ELSE IF o.result.success
                                THEN Response("query", query, 200, o.result)
                                ELSE Response("query", query, 400, Detail(o.result.error))
                     /\ calls' = o.calls
                     /\ failed' = o.failed
                     /\ retrieved' = o.retrieved
    /\ UNCHANGED <<chunkVars, storeVars, temp_files, pdfVars>>

\* ChromaDBClient.get_collection_info: {} when collection.count() raises
get_collection_info(failing) ==
    IF "chroma.count" \in failing THEN [none |-> TRUE]
    ELSE [total_chunks |-> Cardinality(collection), collection_name |-> "document_chunks"]

\* main.py health_check: the ping raises into the except clause; the result of
\* get_collection_info is not looked at
health_check(failing) ==
    IF "mongo.ping" \in failing
    THEN [result |-> [status |-> "unhealthy", error |-> "ping failed"],
          calls  |-> <<"mongo.ping">>]
    ELSE LET info == get_collection_info(failing)
         IN [result |-> [status   |-> "healthy",
                         mongodb  |-> "connected",
                         chromadb |-> "connected",
                         gemini   |-> "configured"],
             calls  |-> <<"mongo.ping", "chroma.count">>]

HealthCheck ==
    /\ pc = "serving"
    /\ pc' = "responding"
    /\ \E failing \in SUBSET {"mongo.ping", "chroma.count"} :
          LET o == health_check(failing)
          IN /\ last' = Response("health", <<>>, 200, o.result)
             /\ calls' = o.calls
             /\ failed' = failing \cap Issued(o.calls)
    /\ UNCHANGED <<chunkVars, storeVars, retrieved, temp_files, pdfVars>>

\* No _chunk_text call is in progress.
NoFilename == [root |-> "", ext |-> ""]

\* The response of the last request has been sent and the locals of its handler
\* are gone: the service takes the next.
Respond ==
    /\ pc = "responding"
    /\ pc' = "serving"
    /\ last' = NoRequest
    /\ calls' = <<>>
    /\ failed' = {}
    /\ retrieved' = <<>>
    /\ text' = <<>>
    /\ document_id' = Uuid(0)
    /\ filename' = NoFilename
    /\ chunks' = <<>>
    /\ UNCHANGED <<CHUNK_SIZE, CHUNK_OVERLAP, storeVars, temp_files, pdfVars>>

----------------------------------------------------------------------------
(* The service specification: requests handled one at a time                *)

Init ==
    /\ \E c \in ServiceConfigs : CHUNK_SIZE = c[1] /\ CHUNK_OVERLAP = c[2]
    /\ MAX_DOCUMENTS \in 1..MaxDocumentLimit
    /\ text = <<>>
    /\ document_id = Uuid(0)
    /\ filename = NoFilename
    /\ chunks = <<>>
    /\ pc = "serving"
    /\ documents = {}
    /\ collection = {}
    /\ upload_count = 0
    /\ uploaded = {}
    /\ last = NoRequest
    /\ calls = <<>>
    /\ failed = {}
    /\ retrieved = <<>>
    /\ temp_files = {}
    /\ MAX_PAGES_PER_DOCUMENT = DefaultMaxPages
    /\ pages = <<>>

Next ==
    \/ UploadDocument
    \/ DeleteDocument
    \/ GetDocument
    \/ GetDocuments
    \/ QueryDocuments
    \/ CallValidateQuery
    \/ CallProcessQuery
    \/ HealthCheck
    \/ Respond

Spec == Init /\ [][Next]_vars

----------------------------------------------------------------------------
(* C2 *)

\* C2 as stated: after a successful delete of a document uploaded earlier, made
\* with the identifier its upload returned, the vector store holds no chunk
\* whose document_id metadata is that document's id.
C2_DeleteRemovesChunks ==
    (last.request = "delete" /\ last.status = 200) =>
        \A u \in uploaded :
            u.returned = last.arg =>
                \A c \in collection : c.metadata.document_id # u.document_id

----------------------------------------------------------------------------
(* C10 *)

\* C10: a query whose trimmed length is below 3 (the empty query included) is
\* rejected as invalid by validate_query and by process_query, and process_query
\* (called directly or by the query handler) rejects it before any call to the
\* vector store or the generation service.
C10_ShortQueryRejected ==
    (last.request \in {"validate_query", "process_query", "query"}
        /\ StrLen(Strip(last.arg)) < 3) =>
        /\ last.request = "validate_query" =>
               /\ ~last.result.valid
               /\ last.result.error \in {"Query cannot be empty",
                                         "Query must be at least 3 characters long"}
        /\ last.request = "process_query" =>
               /\ ~last.result.success
               /\ last.result.error = "Query must be at least 3 characters long"
               /\ calls = <<>>
        /\ last.request = "query" =>
               /\ last.status = 400
               /\ calls = <<>>

C10_Witness ==
    /\ last.request = "process_query"
    /\ StrLen(last.arg) >= 3
    /\ StrLen(Strip(last.arg)) < 3
    /\ ~last.result.success
    /\ calls = <<>>
    /\ collection # {}

----------------------------------------------------------------------------
(* C11 *)

\* C11 as stated: whenever the vector-store search or the generation call raises
\* while process_query handles a valid query, the result reports failure (success is
\* false), and the error is not 'No relevant documents found for your query'.
C11_UpstreamFailureSurfaced ==
    (last.request = "process_query" /\ validate_query(last.arg).valid
        /\ failed # {}) =>
        /\ ~last.result.success
        /\ last.result.error # "No relevant documents found for your query"

----------------------------------------------------------------------------
(* C12 *)

\* C12: no external call is retried: among the external calls one request
\* (upload, query, get, list, delete) issues, no operation occurs twice, also
\* when a call of the request raised.
C12_NoRetry ==
    \A i, j \in DOMAIN calls : i # j => calls[i] # calls[j]

\* A delete of a stored document whose chunk query raised: the handler went on
\* to its response without asking the vector store again.
C12_Witness ==
    /\ last.request = "delete"
    /\ last.status = 200
    /\ failed = {"chroma.query"}
    /\ calls = <<"mongo.delete_one", "chroma.query">>

----------------------------------------------------------------------------
(* C13 *)

\* The extractor raised on the file, or what it extracted is empty or has fewer
\* than 10 characters after trimming.
Unreadable(file) ==
    \/ file.extraction.raised
    \/ file.extraction.text = <<>>
    \/ StrLen(Strip(file.extraction.text)) < 10

\* C13: an upload of a file whose extraction raises, or whose extracted text is
\* empty or shorter than 10 characters after trimming, ends with an error; the
\* step that handles it makes no call of _chunk_text, issues no insert and no
\* add, and leaves the document store and the vector store as they were.
C13_RejectedBeforeChunking ==
    [][(last'.request = "upload" /\ Unreadable(last'.arg)) =>
           /\ last'.status \in {400, 500}
           /\ UNCHANGED <<text, document_id, filename, chunks>>
           /\ "mongo.insert_one" \notin Issued(calls')
           /\ "chroma.add" \notin Issued(calls')
           /\ documents' = documents
           /\ collection' = collection]_vars

\* process_document was reached (the file passed validate_file and the document
\* limit) with a text of one character, and raised; a document is in the stores.
C13_Witness ==
    /\ last.request = "upload"
    /\ last.arg.extraction.text = <<"a">>
    /\ last.status = 500
    /\ calls = <<"mongo.find">>
    /\ failed = {}
    /\ chunks = <<>>
    /\ documents # {}
    /\ collection # {}

----------------------------------------------------------------------------
(* C14 *)

\* The extension, compared in lower case, is none of .pdf, .docx, .txt.
UnsupportedType(file) == LowerRun(file.filename.ext) \notin {".pdf", ".docx", ".txt"}

\* The size exceeds 50 MB.
Oversized(file) == file.size > 50 * 1024 * 1024

\* What C14 says of one upload step, with the responses it allows for a file of
\* unsupported type or excessive size.
C14_Step(allowed) ==
    last'.request = "upload" =>
        /\ (UnsupportedType(last'.arg) \/ Oversized(last'.arg)) =>
               /\ [status |-> last'.status, result |-> last'.result] \in allowed
               /\ calls' = <<>>
               /\ documents' = documents
               /\ collection' = collection
        /\ (~UnsupportedType(last'.arg) /\ last'.arg.size = 50 * 1024 * 1024) =>
               last'.result # Detail("Invalid file type or size")

\* The invalid-input responses of an upload.
InvalidInputResponses ==
    {[status |-> 400, result |-> Detail("Invalid file type or size")],
     [status |-> 400, result |-> Detail("No file provided")]}

\* C14 as stated: an upload whose extension is not one of .pdf, .docx, .txt
\* (case-insensitively) or whose size exceeds 50 MB is answered with an
\* invalid-input error, issues no store call and changes no store; a file of
\* exactly 50 MB with a supported extension is not refused as invalid.
C14_InvalidUploadRejected ==
    [][C14_Step(InvalidInputResponses)]_vars

\* C14, amended: such an upload is answered with an invalid-input error once it
\* has been copied to the temporary file, and with the 500 of a failed copy
\* otherwise; in both cases it issues no store call and changes no store; a
\* file of exactly 50 MB with a supported extension is not refused as invalid.
C14_InvalidUploadRejectedOnceReceived ==
    [][C14_Step(InvalidInputResponses \cup
                   {[status |-> 500, result |-> Detail("Error processing file")]})]_vars

\* A file of one byte more than 50 MB was refused while a document is stored.
C14_Witness ==
    /\ last.request = "upload"
    /\ last.arg.size = 50 * 1024 * 1024 + 1
    /\ last.status = 400
    /\ last.result = Detail("Invalid file type or size")
    /\ documents # {}
    /\ collection # {}

----------------------------------------------------------------------------
(* C15 *)

\* C15: a get or delete request whose identifier is the _id of no stored
\* document is answered 404 'Document not found' and changes neither store; and
\* a delete answered 404 has issued no call to the vector store.
C15_NotFound ==
    [][/\ (last'.request \in {"get", "delete"}
            /\ \A d \in documents : d._id # last'.arg) =>
              /\ last'.status = 404
              /\ last'.result = Detail("Document not found")
              /\ documents' = documents
              /\ collection' = collection
       /\ (last'.request = "delete" /\ last'.status = 404) =>
              /\ "chroma.query" \notin Issued(calls')
              /\ "chroma.delete" \notin Issued(calls')]_vars

\* A delete with a well-formed identifier that no stored document has, while
\* another document and its chunk are stored: delete_one ran and found nothing.
C15_Witness ==
    /\ last.request = "delete"
    /\ last.status = 404
    /\ calls = <<"mongo.delete_one">>
    /\ failed = {}
    /\ documents # {}
    /\ collection # {}
    /\ \A d \in documents : d._id # last.arg

----------------------------------------------------------------------------
(* C16 *)

\* C16: a successful upload adds exactly one record to the document store, the
\* one whose _id it returns, and keeps the others; and in every step a stored
\* record stays in the store unchanged unless the step is the delete request
\* for that record's _id.
C16_StoredOncePerUpload ==
    [][/\ (last'.request = "upload" /\ last'.status = 200) =>
              /\ documents \subseteq documents'
              /\ Cardinality(documents' \ documents) = 1
              /\ \A d \in documents' \ documents : d._id = last'.result.document_id
       /\ \A d \in documents :
              d \notin documents' =>
                  (last'.request = "delete" /\ last'.arg = d._id)]_vars

\* A second successful upload: the store holds the record of the first and one
\* more.
C16_Witness ==
    /\ last.request = "upload"
    /\ last.status = 200
    /\ Cardinality(documents) = 2
    /\ \E d \in documents : d._id = last.result.document_id
    /\ \E d \in documents : d._id # last.result.document_id

----------------------------------------------------------------------------
(* C17 *)

\* C17: a step that handles a query request (validate_query, then process_query
\* for a query that passed), or a direct call of either, leaves the document
\* store and the vector store as they were, whether it succeeds or fails.
C17_QueryNotPersisted ==
    [][last'.request \in {"query", "validate_query", "process_query"} =>
           /\ documents' = documents
           /\ collection' = collection]_vars

\* A query request answered from a stored chunk.
C17_Witness ==
    /\ last.request = "query"
    /\ last.status = 200
    /\ last.result.total_sources >= 1
    /\ calls = <<"chroma.query", "gemini.generate_content">>
    /\ documents # {}
    /\ collection # {}

----------------------------------------------------------------------------
(* C18 *)

\* The result process_query returned to a query request or to a direct call, if
\* it was a successful one.
Answered ==
    \/ last.request = "query" /\ last.status = 200
    \/ last.request = "process_query" /\ last.result.success

\* C18: in every query execution validation comes first (a query request that
\* issued a call had a valid query), then the search, then the generation: the
\* generation service is called only after the search, and only when the vector
\* store returned at least one chunk; it is given exactly the texts of the
\* retrieved chunks in rank order; and a successful result lists one source per
\* retrieved chunk in the same order, with total_sources the number of sources.
C18_QueryOrder ==
    last.request \in {"query", "process_query"} =>
        /\ (last.request = "query" /\ calls # <<>>) => validate_query(last.arg).valid
        /\ calls \in {<<>>, <<"chroma.query">>,
                      <<"chroma.query", "gemini.generate_content">>}
        /\ "gemini.generate_content" \in Issued(calls) <=> Len(retrieved) >= 1
        /\ "gemini.generate_content" \in Issued(calls) <=> Answered
        /\ Answered =>
               /\ last.result.response.context =
                      [k \in 1..Len(retrieved) |-> retrieved[k].document]
               /\ Len(last.result.sources) = Len(retrieved)
               /\ \A k \in 1..Len(retrieved) :
                      /\ last.result.sources[k].filename = retrieved[k].metadata.filename
                      /\ last.result.sources[k].chunk_index =
                             retrieved[k].metadata.chunk_index
                      /\ StrLen(retrieved[k].document) <= 200 =>
                             last.result.sources[k].text_preview = retrieved[k].document
               /\ last.result.total_sources = Len(last.result.sources)

\* A query answered from a ranking of two chunks with different texts.
C18_Witness ==
    /\ last.request = "query"
    /\ last.status = 200
    /\ Len(retrieved) = 2
    /\ retrieved[1].document # retrieved[2].document
    /\ last.result.total_sources = 2

----------------------------------------------------------------------------
(* C19 *)

\* C19: whatever the query and whatever the vector-store and generation calls
\* do, process_query returns a result that carries a boolean success flag, and
\* no exception of it reaches the query handler (which would answer 500).
C19_AlwaysAResult ==
    /\ last.request = "process_query" =>
           /\ "success" \in DOMAIN last.result
           /\ last.result.success \in BOOLEAN
    /\ last.request = "query" => last.status \in {200, 400}

\* process_query returned a result although the vector-store search raised.
C19_Witness ==
    /\ last.request = "process_query"
    /\ failed = {"chroma.query"}
    /\ collection # {}
    /\ "success" \in DOMAIN last.result

----------------------------------------------------------------------------
(* C20 *)

\* C20 as stated: no two chunks returned by one _chunk_text call have the same
\* chunk_id.
C20_UniqueChunkIds ==
    pc = "returned" =>
        \A i, j \in 1..Len(chunks) : i # j => chunks[i].chunk_id # chunks[j].chunk_id

----------------------------------------------------------------------------
(* C21 *)

\* C21 as stated: after any sequence of requests handled one at a time the
\* document store holds at most MAX_DOCUMENTS records.
C21_LimitNeverExceeded ==
    Cardinality(documents) <= MAX_DOCUMENTS

----------------------------------------------------------------------------
(* C22 *)

\* C22 as stated: after an upload request that ended in an error, the document
\* store holds no record of that upload (the upload_count-th, whose document id
\* is the uuid it drew) and the vector store holds none of its chunks.
C22_AllOrNothing ==
    (last.request = "upload" /\ last.status # 200) =>
        /\ \A d \in documents : d.document_id # Uuid(upload_count)
        /\ \A c \in collection : c.metadata.document_id # Uuid(upload_count)

----------------------------------------------------------------------------
(* C23 *)

\* Word index w lies inside the span of a returned chunk.
Covered(w) ==
    \E k \in 1..Len(chunks) :
        chunks[k].start_word_index <= w /\ w < chunks[k].end_word_index

\* C23 as stated: when _chunk_text returns at least one chunk, every word index
\* in [0, n) lies inside the span of a returned chunk.
C23_NoWordsLost ==
    (pc = "returned" /\ Len(chunks) >= 1) =>
        \A w \in 0..(NumWords - 1) : Covered(w)

\* C23, amended: every word index in [0, n) lies inside a candidate window, and
\* it lies inside the span of a returned chunk exactly when one of the windows
\* that contain it has at least 50 characters; a word all of whose windows are
\* shorter is lost, also when other chunks are returned.
C23_WordsLostOnlyInShortWindows ==
    pc = "returned" =>
        \A w \in 0..(NumWords - 1) :
            /\ \E s \in WindowStarts : s <= w /\ w < WindowEnd(s)
            /\ Covered(w) <=>
                   \E s \in WindowStarts :
                       /\ s <= w /\ w < WindowEnd(s)
                       /\ SpacedChars(s, WindowEnd(s)) >= 50

\* A chunk is returned and a word is lost, next to a word that is kept.
C23_Witness ==
    /\ pc = "returned"
    /\ Len(chunks) >= 1
    /\ \E w \in 0..(NumWords - 1) : ~Covered(w)
    /\ \E w \in 0..(NumWords - 1) : Covered(w)

----------------------------------------------------------------------------
(* C24 *)

\* The query, in lower case, contains one of spam, malware, virus.
HasFilteredWord(query) ==
    \E word \in {"spam", "malware", "virus"} : Contains(Lower(query), word)

\* C24 as stated: validate_query accepts a query exactly when its trimmed
\* length is between 3 and 1000 characters and it contains no filtered word.
C24_AcceptsThreeToThousand ==
    last.request = "validate_query" =>
        (last.result.valid <=>
            /\ StrLen(Strip(last.arg)) >= 3
            /\ StrLen(Strip(last.arg)) <= 1000
            /\ ~HasFilteredWord(last.arg))

----------------------------------------------------------------------------
(* C25 *)

\* C25: when the response of an upload is produced, on whichever path the
\* upload ended, the temporary file created for it does not exist (and no
\* temporary file of an earlier upload does).
C25_TempFileRemoved ==
    last.request = "upload" => temp_files = {}

\* An upload that had copied the file to its temporary file and then failed in
\* the vector-store add.
C25_Witness ==
    /\ last.request = "upload"
    /\ last.status = 500
    /\ calls = <<"mongo.find", "mongo.insert_one", "chroma.add">>
    /\ TempPath(upload_count) \notin temp_files

----------------------------------------------------------------------------
(* C26 *)

\* C26 as stated: the health check reports 'unhealthy' whenever the
\* document-store ping or the vector-store collection call failed, and reports
\* 'healthy' with both stores 'connected' only when both calls succeeded.
C26_UnhealthyOnFailure ==
    last.request = "health" =>
        /\ failed # {} => last.result.status = "unhealthy"
        /\ last.result.status = "healthy" =>
               /\ failed = {}
               /\ calls = <<"mongo.ping", "chroma.count">>
               /\ last.result.mongodb = "connected"
               /\ last.result.chromadb = "connected"

----------------------------------------------------------------------------
(* C27 *)

\* The words of the extracted blob.
BlobWords == SelectSeq(text, LAMBDA run : run \notin {" ", "\n", "\n\n"})

\* The words the first k pages put into the blob, in page order: for each page
\* with text its marker and its words, nothing for a page without text.
RECURSIVE WordsOfPages(_)
WordsOfPages(k) ==
    IF k = 0 THEN <<>>
    ELSE WordsOfPages(k - 1) \o
            (IF pages[k] = <<>> THEN <<>>
             ELSE <<"---", "Page", ToString(k), "---">> \o
                     SelectSeq(pages[k], LAMBDA run : run # " "))

\* C27: the extracted blob holds the text of the first MAX_PAGES_PER_DOCUMENT
\* pages and of no later page, in page order, and nothing for a page whose
\* extracted text is empty.
C27_AtMostMaxPages ==
    pc = "extracted" =>
        BlobWords = WordsOfPages(IF Len(pages) < MAX_PAGES_PER_DOCUMENT
                                 THEN Len(pages) ELSE MAX_PAGES_PER_DOCUMENT)

\* A PDF with more pages than the limit, whose pages below the limit include an
\* empty one and one with text, and whose first page beyond the limit has text.
C27_Witness ==
    /\ pc = "extracted"
    /\ MAX_PAGES_PER_DOCUMENT = 2
    /\ Len(pages) = 3
    /\ pages[1] = <<>>
    /\ pages[2] # <<>>
    /\ pages[3] # <<>>
    /\ text # <<>>

====
